---- MODULE Spec2Model ----
(***************************************************************************)
(* Showtime scheduling and seat reservation of the cinema back end.        *)
(*                                                                         *)
(* The store is the MySQL schema of Database/cine.sql (tables movies,      *)
(* rooms, showtimes, seats, reservations with their keys and foreign       *)
(* keys).  Every request handler is modelled statement by statement: one   *)
(* action per store statement the handler awaits, so that requests can be  *)
(* run to completion one at a time (Spec) or interleaved between           *)
(* statements (SpecConc).                                                  *)
(*                                                                         *)
(* Times are seconds.  Movies last a whole number of minutes (the movie    *)
(* handlers store running_time * 60), showtimes start on multiples of      *)
(* TURNAROUND, and the clock visits those multiples and the seconds right  *)
(* before and after them.  The columns created_at and reservation_date are *)
(* written but never read by a handler and are left out of the rows.       *)
(***************************************************************************)
EXTENDS Integers, FiniteSets, Sequences, TLC

\* ---------------------------------------------------------------- bounds
NumProcs == 2
MaxSlot == 3
MaxClockSlot == 2
MaxShowtimes == 2
MaxSeatRows == 3
MaxSeatNumber == 3

\* ------------------------------------------------------- program constants
TURNAROUND == 1800

\* ------------------------------------------------------------- fixed tables
\* users: id -> role carried by the verified token
users == (1 :> "admin") @@ (2 :> "user")
\* rooms: id -> capacity
rooms == (1 :> 2) @@ (2 :> 1)
\* movies after construction: id -> running_time in seconds
InitialMovies == (1 :> 30 * 60) @@ (2 :> 90 * 60)

Procs == 1..NumProcs
ReqMovieIds == {1, 2, 3}
ReqRoomIds == {1, 2, 3}
ReqShowtimeIds == 1..(MaxShowtimes + 1)
ReqReservationIds == 1..(MaxSeatRows + 1)
ReqSeatNumbers == 1..MaxSeatNumber
ReqStarts == {k * TURNAROUND : k \in 1..MaxSlot}
\* running_time of a movie request, in minutes
ReqRunningTimes == {30, 90}
\* The clock starts at 0 and then visits the seconds around the slot boundaries
\* from the second one on (the earliest midpoint a showtime can have).
Instants == {0} \cup {k * TURNAROUND + d : k \in 2..MaxClockSlot, d \in {-1, 0, 1}}
\* The scheduling handlers compare the clock with a start only: there the slot
\* boundaries are enough.
SlotInstants == {k * TURNAROUND : k \in 0..MaxClockSlot}
\* Between scheduling requests of any kind it is enough that the clock is seen
\* before every start and once later, past the earlier starts.
SchedInstants == {0, MaxClockSlot * TURNAROUND}
\* Requests that run one at a time are all served in the first process.
Sequential == {1}

VARIABLES movies, showtimes, seats, reservations,
          nextShowtimeId, nextSeatId, nextReservationId,
          now, proc

store == <<movies, showtimes, seats, reservations>>
counters == <<nextShowtimeId, nextSeatId, nextReservationId>>
vars == <<movies, showtimes, seats, reservations,
          nextShowtimeId, nextSeatId, nextReservationId, now, proc>>

\* ------------------------------------------------------------------ rows
ShowtimeRow(id, movie_id, room_id, init, end, available, total) ==
    [id |-> id, movie_id |-> movie_id, room_id |-> room_id,
     showtime_init |-> init, showtime_end |-> end,
     available_seats |-> available, total_seats |-> total]

SeatRow(id, showtime_id, seat_number) ==
    [id |-> id, showtime_id |-> showtime_id, seat_number |-> seat_number]

ReservationRow(id, user_id, showtime_id, seat_id) ==
    [id |-> id, user_id |-> user_id, showtime_id |-> showtime_id, seat_id |-> seat_id]

\* SELECT ... FROM t WHERE id = ?
RowsById(table, id) == {r \in table : r.id = id}
TheRow(table, id) == CHOOSE r \in table : r.id = id

\* ------------------------------------------------------ overlap detection
ConflictType_NoFull(showtime_init, showtime_end, existingInit, existingEnd) ==
    IF showtime_init >= existingInit /\ showtime_init < existingEnd THEN "startOverlap"
    ELSE IF showtime_end > existingInit /\ showtime_end <= existingEnd THEN "endOverlap"
    ELSE "none"

ConflictType_Closed(showtime_init, showtime_end, existingInit, existingEnd) ==
    IF showtime_init >= existingInit /\ showtime_init <= existingEnd THEN "startOverlap"
    ELSE IF showtime_end >= existingInit /\ showtime_end <= existingEnd THEN "endOverlap"
    ELSE IF showtime_init <= existingInit /\ showtime_end >= existingEnd THEN "fullOverlap"
    ELSE "none"

ConflictType_EndFirst(showtime_init, showtime_end, existingInit, existingEnd) ==
    IF showtime_end > existingInit /\ showtime_end <= existingEnd THEN "endOverlap"
    ELSE IF showtime_init >= existingInit /\ showtime_init < existingEnd THEN "startOverlap"
    ELSE IF showtime_init <= existingInit /\ showtime_end >= existingEnd THEN "fullOverlap"
    ELSE "none"

ConflictType(showtime_init, showtime_end, existingInit, existingEnd) ==
    IF showtime_init >= existingInit /\ showtime_init < existingEnd THEN "startOverlap"
    ELSE IF showtime_end > existingInit /\ showtime_end <= existingEnd THEN "endOverlap"
    ELSE IF showtime_init <= existingInit /\ showtime_end >= existingEnd THEN "fullOverlap"
    ELSE "none"

\* The rows of the scan that stop the loop; skip is the edited showtime or 0.
Conflicting(rows, skip, showtime_init, showtime_end) ==
    {r \in rows : /\ r.id # skip
                  /\ ConflictType(showtime_init, showtime_end,
                                  r.showtime_init, r.showtime_end) # "none"}

\* The loop walks the rows in the order the store returns them (by id).
FirstConflict(rows, skip, showtime_init, showtime_end) ==
    LET c == Conflicting(rows, skip, showtime_init, showtime_end)
    IN  CHOOSE r \in c : \A o \in c : r.id <= o.id

\* ------------------------------------------------------------- responses
NoResp == [kind |-> "None", msg |-> "", ref |-> 0]
Resp(kind, msg) == [kind |-> kind, msg |-> msg, ref |-> 0]
RespRef(kind, msg, ref) == [kind |-> kind, msg |-> msg, ref |-> ref]

NoReq == [id |-> 0, movie_id |-> 0, room_id |-> 0, showtime_init |-> 0,
          showtime_id |-> 0, seat_number |-> 0, running_time |-> 0]
NoLoc == [capacity |-> 0, showtime_end |-> 0, available_seats |-> 0,
          reservation_date |-> 0, room_id |-> 0, seat_id |-> 0, showtime_id |-> 0]
NoPre == [showtimes |-> {}, seats |-> {}, reservations |-> {}]
\* What a client that reserves, cancels and reserves again remembers of its
\* first request: how far it is, the seat, and available_seats at the start.
NoTrip == [step |-> 0, showtime_id |-> 0, seat_number |-> 0, available_seats |-> 0]

Idle == [pc |-> "idle", op |-> "", user |-> 0, req |-> NoReq, loc |-> NoLoc,
         resp |-> NoResp, pre |-> NoPre, trip |-> NoTrip]

Init ==
    /\ movies = InitialMovies
    /\ showtimes = {}
    /\ seats = {}
    /\ reservations = {}
    /\ nextShowtimeId = 1
    /\ nextSeatId = 1
    /\ nextReservationId = 1
    /\ now = 0
    /\ proc = [p \in Procs |-> Idle]

\* ------------------------------------------------------ request plumbing
InFlight == {q \in Procs : proc[q].pc # "idle"}

\* A request enters a handler; limit is how many requests the server has in
\* hand at once (1: each runs to completion before the next arrives).
Admit(p, limit) ==
    /\ proc[p].pc = "idle"
    /\ Cardinality(InFlight) < limit

At(p, op, pc) == proc[p].op = op /\ proc[p].pc = pc

Snapshot == [showtimes |-> showtimes, seats |-> seats, reservations |-> reservations]

Enter(p, op, user, req) ==
    [Idle EXCEPT !.op = op, !.user = user, !.req = req, !.pre = Snapshot]

\* send*(res, ...) followed by return: the handler is finished.
Send(p, resp) == proc' = [proc EXCEPT ![p].pc = "done", ![p].resp = resp]
Goto(p, pc) == proc' = [proc EXCEPT ![p].pc = pc]

\* decoded.role !== 'admin' (addShowtime, editShowtime) and decoded.role === 'user'
\* (deleteShowtime, addReservation): the two ways a handler turns a caller away.
RoleNotAdmin(role) == role # "admin"

RoleIsUser_Never(role) == FALSE

RoleIsUser(role) == role = "user"

\* The role check comes first and looks at nothing but the token.
Reject(p, op, user, req) ==
    proc' = [proc EXCEPT ![p] =
        [Enter(p, op, user, req) EXCEPT !.pc = "done",
                                        !.resp = Resp("Unauthorized", "role")]]

\* The response has been delivered and the handler's frame is gone.
Respond(p) ==
    /\ proc[p].pc = "done"
    /\ proc' = [proc EXCEPT ![p] = Idle]
    /\ UNCHANGED <<store, counters, now>>

\* Math.floor(new Date().getTime() / 1000) grows.  Every handler reads the clock
\* once, so when requests run one at a time (quiet) it is enough to let time pass
\* between them; otherwise it passes between any two statements.  instants are
\* the values the clock is observed at.
Tick(quiet, instants) ==
    /\ quiet => InFlight = {}
    /\ \E t \in instants : t > now
    /\ now' = CHOOSE t \in instants : t > now /\ \A o \in instants : o > now => t <= o
    /\ UNCHANGED <<store, counters, proc>>

\* ------------------------------------------------------------ addShowtime
\* The scheduling handlers turn a caller away before they look at the body, which
\* is left unrecorded for such a request.
Adding == {q \in Procs : proc[q].op = "addShowtime" /\ proc[q].pc \notin {"idle", "done"}}

AddShowtimeBegin_AtNow(p, limit, w) ==
    /\ Admit(p, limit)
    /\ nextShowtimeId + Cardinality(Adding) <= w.last_showtime
    /\ \E u \in w.users :
         IF RoleNotAdmin(users[u])
         THEN Reject(p, "addShowtime", u, NoReq)
         ELSE \E m \in w.movies, r \in w.rooms, s \in w.starts :
                LET req == [NoReq EXCEPT !.movie_id = m, !.room_id = r,
                                         !.showtime_init = s]
                    e == Enter(p, "addShowtime", u, req)
                IN  proc' = [proc EXCEPT ![p] =
                        IF m = 0 \/ r = 0 \/ s = 0
                        THEN [e EXCEPT !.pc = "done", !.resp = Resp("BadParam", "missing")]
                        ELSE IF now > s
                        THEN [e EXCEPT !.pc = "done", !.resp = Resp("Conflict", "past")]
                        ELSE [e EXCEPT !.pc = "checkMovie"]]
    /\ UNCHANGED <<store, counters, now>>

\* A missing (falsy) body field, then created_at >= showtime_init, are refused
\* before any statement is sent.
AddShowtimeBegin(p, limit, w) ==
    /\ Admit(p, limit)
    /\ nextShowtimeId + Cardinality(Adding) <= w.last_showtime
    /\ \E u \in w.users :
         IF RoleNotAdmin(users[u])
         THEN Reject(p, "addShowtime", u, NoReq)
         ELSE \E m \in w.movies, r \in w.rooms, s \in w.starts :
                LET req == [NoReq EXCEPT !.movie_id = m, !.room_id = r,
                                         !.showtime_init = s]
                    e == Enter(p, "addShowtime", u, req)
                IN  proc' = [proc EXCEPT ![p] =
                        IF m = 0 \/ r = 0 \/ s = 0
                        THEN [e EXCEPT !.pc = "done", !.resp = Resp("BadParam", "missing")]
                        ELSE IF now >= s
                        THEN [e EXCEPT !.pc = "done", !.resp = Resp("Conflict", "past")]
                        ELSE [e EXCEPT !.pc = "checkMovie"]]
    /\ UNCHANGED <<store, counters, now>>

AddShowtimeCheckMovie(p) ==
    /\ At(p, "addShowtime", "checkMovie")
    /\ IF proc[p].req.movie_id \notin DOMAIN movies
       THEN Send(p, Resp("Conflict", "noMovie"))
       ELSE Goto(p, "getCapacity")
    /\ UNCHANGED <<store, counters, now>>

AddShowtimeGetCapacity_FirstRoom(p) ==
    /\ At(p, "addShowtime", "getCapacity")
    /\ IF proc[p].req.room_id \notin DOMAIN rooms
       THEN Send(p, Resp("BadParam", "noRoom"))
       ELSE proc' = [proc EXCEPT ![p].pc = "getMovieTime", ![p].loc.capacity = rooms[1]]
    /\ UNCHANGED <<store, counters, now>>

AddShowtimeGetCapacity(p) ==
    /\ At(p, "addShowtime", "getCapacity")
    /\ IF proc[p].req.room_id \notin DOMAIN rooms
       THEN Send(p, Resp("BadParam", "noRoom"))
       ELSE proc' = [proc EXCEPT ![p].pc = "getMovieTime",
                                 ![p].loc.capacity = rooms[proc[p].req.room_id]]
    /\ UNCHANGED <<store, counters, now>>

AddShowtimeGetMovieTime(p) ==
    /\ At(p, "addShowtime", "getMovieTime")
    /\ IF proc[p].req.movie_id \notin DOMAIN movies
       THEN Send(p, Resp("BadParam", "noMovie"))
       ELSE proc' = [proc EXCEPT ![p].pc = "getShowtimes",
                                 ![p].loc.showtime_end =
                                     proc[p].req.showtime_init
                                     + movies[proc[p].req.movie_id] + TURNAROUND]
    /\ UNCHANGED <<store, counters, now>>

AddShowtimeGetShowtimes_InsertFirst(p) ==
    /\ At(p, "addShowtime", "getShowtimes")
    /\ LET showtimesRows == {r \in showtimes : r.room_id = proc[p].req.room_id}
           init == proc[p].req.showtime_init
           end == proc[p].loc.showtime_end
       IN  IF Conflicting(showtimesRows, 0, init, end) # {}
           THEN LET x == FirstConflict(showtimesRows, 0, init, end)
                IN  /\ showtimes' = showtimes \cup
                           {ShowtimeRow(nextShowtimeId, proc[p].req.movie_id,
                                        proc[p].req.room_id, init, end,
                                        proc[p].loc.capacity, proc[p].loc.capacity)}
                    /\ nextShowtimeId' = nextShowtimeId + 1
                    /\ Send(p, RespRef("Conflict",
                                       ConflictType(init, end, x.showtime_init, x.showtime_end),
                                       x.id))
           ELSE /\ Goto(p, "insert")
                /\ UNCHANGED <<showtimes, nextShowtimeId>>
    /\ UNCHANGED <<movies, seats, reservations, nextSeatId, nextReservationId, now>>

AddShowtimeGetShowtimes(p) ==
    /\ At(p, "addShowtime", "getShowtimes")
    /\ LET showtimesRows == {r \in showtimes : r.room_id = proc[p].req.room_id}
           init == proc[p].req.showtime_init
           end == proc[p].loc.showtime_end
       IN  IF Conflicting(showtimesRows, 0, init, end) # {}
           THEN LET x == FirstConflict(showtimesRows, 0, init, end)
                IN  Send(p, RespRef("Conflict",
                                    ConflictType(init, end, x.showtime_init, x.showtime_end),
                                    x.id))
           ELSE Goto(p, "insert")
    /\ UNCHANGED <<store, counters, now>>

AddShowtimeInsert(p) ==
    /\ At(p, "addShowtime", "insert")
    /\ LET r == proc[p].req
       IN  IF r.movie_id \in DOMAIN movies /\ r.room_id \in DOMAIN rooms
           THEN /\ showtimes' = showtimes \cup
                       {ShowtimeRow(nextShowtimeId, r.movie_id, r.room_id, r.showtime_init,
                                    proc[p].loc.showtime_end,
                                    proc[p].loc.capacity, proc[p].loc.capacity)}
                /\ nextShowtimeId' = nextShowtimeId + 1
                /\ Send(p, Resp("Ok", "added"))
           ELSE /\ UNCHANGED <<showtimes, nextShowtimeId>>
                /\ Send(p, Resp("ServerError", "foreignKey"))
    /\ UNCHANGED <<movies, seats, reservations, nextSeatId, nextReservationId, now>>

\* ----------------------------------------------------------- editShowtime
EditShowtimeBegin(p, limit, w) ==
    /\ Admit(p, limit)
    /\ \E u \in w.users :
         IF RoleNotAdmin(users[u])
         THEN Reject(p, "editShowtime", u, NoReq)
         ELSE \E id \in w.showtimes, m \in w.movies, r \in w.rooms,
                 s \in w.starts :
                LET req == [NoReq EXCEPT !.id = id, !.movie_id = m, !.room_id = r,
                                         !.showtime_init = s]
                    e == Enter(p, "editShowtime", u, req)
                IN  proc' = [proc EXCEPT ![p] =
                        IF m = 0 \/ r = 0 \/ s = 0
                        THEN [e EXCEPT !.pc = "done", !.resp = Resp("BadParam", "missing")]
                        ELSE IF now >= s
                        THEN [e EXCEPT !.pc = "done", !.resp = Resp("Conflict", "past")]
                        ELSE [e EXCEPT !.pc = "checkMovie"]]
    /\ UNCHANGED <<store, counters, now>>

EditShowtimeCheckMovie(p) ==
    /\ At(p, "editShowtime", "checkMovie")
    /\ IF proc[p].req.movie_id \notin DOMAIN movies
       THEN Send(p, Resp("Conflict", "noMovie"))
       ELSE Goto(p, "getCapacity")
    /\ UNCHANGED <<store, counters, now>>

EditShowtimeGetCapacity(p) ==
    /\ At(p, "editShowtime", "getCapacity")
    /\ IF proc[p].req.room_id \notin DOMAIN rooms
       THEN Send(p, Resp("BadParam", "noRoom"))
       ELSE proc' = [proc EXCEPT ![p].pc = "getAvailable",
                                 ![p].loc.capacity = rooms[proc[p].req.room_id]]
    /\ UNCHANGED <<store, counters, now>>

\* availableSeatsRows[0].available_seats throws when the showtime is missing.
EditShowtimeGetAvailable(p) ==
    /\ At(p, "editShowtime", "getAvailable")
    /\ IF RowsById(showtimes, proc[p].req.id) = {}
       THEN Send(p, Resp("ServerError", "exception"))
       ELSE proc' = [proc EXCEPT ![p].pc = "getMovieTime",
                                 ![p].loc.available_seats =
                                     TheRow(showtimes, proc[p].req.id).available_seats]
    /\ UNCHANGED <<store, counters, now>>

EditShowtimeGetMovieTime(p) ==
    /\ At(p, "editShowtime", "getMovieTime")
    /\ IF proc[p].req.movie_id \notin DOMAIN movies
       THEN Send(p, Resp("BadParam", "noMovie"))
       ELSE proc' = [proc EXCEPT ![p].pc = "getShowtimes",
                                 ![p].loc.showtime_end =
                                     proc[p].req.showtime_init
                                     + movies[proc[p].req.movie_id] + TURNAROUND]
    /\ UNCHANGED <<store, counters, now>>

EditShowtimeGetShowtimes_NoSkip(p) ==
    /\ At(p, "editShowtime", "getShowtimes")
    /\ LET showtimesRows == {r \in showtimes : r.room_id = proc[p].req.room_id}
           init == proc[p].req.showtime_init
           end == proc[p].loc.showtime_end
       IN  IF Conflicting(showtimesRows, 0, init, end) # {}
           THEN LET x == FirstConflict(showtimesRows, 0, init, end)
                IN  Send(p, RespRef("Conflict",
                                    ConflictType(init, end, x.showtime_init, x.showtime_end),
                                    x.id))
           ELSE Goto(p, "update")
    /\ UNCHANGED <<store, counters, now>>

\* existingShowtimeId === parseInt(id): the edited showtime is skipped.
EditShowtimeGetShowtimes(p) ==
    /\ At(p, "editShowtime", "getShowtimes")
    /\ LET showtimesRows == {r \in showtimes : r.room_id = proc[p].req.room_id}
           id == proc[p].req.id
           init == proc[p].req.showtime_init
           end == proc[p].loc.showtime_end
       IN  IF Conflicting(showtimesRows, id, init, end) # {}
           THEN LET x == FirstConflict(showtimesRows, id, init, end)
                IN  Send(p, RespRef("Conflict",
                                    ConflictType(init, end, x.showtime_init, x.showtime_end),
                                    x.id))
           ELSE Goto(p, "update")
    /\ UNCHANGED <<store, counters, now>>

EditShowtimeUpdate_Reset(p) ==
    /\ At(p, "editShowtime", "update")
    /\ LET r == proc[p].req
       IN  IF r.movie_id \notin DOMAIN movies \/ r.room_id \notin DOMAIN rooms
           THEN /\ UNCHANGED showtimes
                /\ Send(p, Resp("ServerError", "foreignKey"))
           ELSE IF RowsById(showtimes, r.id) = {}
           THEN /\ UNCHANGED showtimes
                /\ Send(p, Resp("ServerError", "notEdited"))
           ELSE /\ showtimes' = (showtimes \ RowsById(showtimes, r.id)) \cup
                       {ShowtimeRow(r.id, r.movie_id, r.room_id, r.showtime_init,
                                    proc[p].loc.showtime_end,
                                    proc[p].loc.capacity, proc[p].loc.capacity)}
                /\ Send(p, Resp("Ok", "edited"))
    /\ UNCHANGED <<movies, seats, reservations, counters, now>>

EditShowtimeUpdate_KeepTotal(p) ==
    /\ At(p, "editShowtime", "update")
    /\ LET r == proc[p].req
       IN  IF r.movie_id \notin DOMAIN movies \/ r.room_id \notin DOMAIN rooms
           THEN /\ UNCHANGED showtimes
                /\ Send(p, Resp("ServerError", "foreignKey"))
           ELSE IF RowsById(showtimes, r.id) = {}
           THEN /\ UNCHANGED showtimes
                /\ Send(p, Resp("ServerError", "notEdited"))
           ELSE /\ showtimes' = (showtimes \ RowsById(showtimes, r.id)) \cup
                       {ShowtimeRow(r.id, r.movie_id, r.room_id, r.showtime_init,
                                    proc[p].loc.showtime_end,
                                    proc[p].loc.available_seats, old.total_seats) :
                           old \in RowsById(showtimes, r.id)}
                /\ Send(p, Resp("Ok", "edited"))
    /\ UNCHANGED <<movies, seats, reservations, counters, now>>

EditShowtimeUpdate(p) ==
    /\ At(p, "editShowtime", "update")
    /\ LET r == proc[p].req
       IN  IF r.movie_id \notin DOMAIN movies \/ r.room_id \notin DOMAIN rooms
           THEN /\ UNCHANGED showtimes
                /\ Send(p, Resp("ServerError", "foreignKey"))
           ELSE IF RowsById(showtimes, r.id) = {}
           THEN /\ UNCHANGED showtimes
                /\ Send(p, Resp("ServerError", "notEdited"))
           ELSE /\ showtimes' = (showtimes \ RowsById(showtimes, r.id)) \cup
                       {ShowtimeRow(r.id, r.movie_id, r.room_id, r.showtime_init,
                                    proc[p].loc.showtime_end,
                                    proc[p].loc.available_seats, proc[p].loc.capacity)}
                /\ Send(p, Resp("Ok", "edited"))
    /\ UNCHANGED <<movies, seats, reservations, counters, now>>

\* --------------------------------------------------------- deleteShowtime
DeleteShowtimeBegin(p, limit, w) ==
    /\ Admit(p, limit)
    /\ \E u \in w.users :
         IF RoleIsUser(users[u])
         THEN Reject(p, "deleteShowtime", u, NoReq)
         ELSE \E id \in w.showtimes :
                proc' = [proc EXCEPT ![p] =
                    [Enter(p, "deleteShowtime", u, [NoReq EXCEPT !.id = id])
                         EXCEPT !.pc = "check"]]
    /\ UNCHANGED <<store, counters, now>>

DeleteShowtimeCheck(p) ==
    /\ At(p, "deleteShowtime", "check")
    /\ IF RowsById(showtimes, proc[p].req.id) = {}
       THEN Send(p, Resp("Conflict", "noShowtime"))
       ELSE Goto(p, "delete")
    /\ UNCHANGED <<store, counters, now>>

DeleteShowtimeDelete_NoCascade(p) ==
    /\ At(p, "deleteShowtime", "delete")
    /\ showtimes' = showtimes \ RowsById(showtimes, proc[p].req.id)
    /\ IF RowsById(showtimes, proc[p].req.id) = {}
       THEN Send(p, Resp("BadParam", "notDeleted"))
       ELSE Send(p, Resp("Ok", "deleted"))
    /\ UNCHANGED <<movies, seats, reservations, counters, now>>

\* DELETE FROM showtimes; seats and reservations go with it (ON DELETE CASCADE).
DeleteShowtimeDelete(p) ==
    /\ At(p, "deleteShowtime", "delete")
    /\ LET id == proc[p].req.id
           keptSeats == {s \in seats : s.showtime_id # id}
       IN  /\ showtimes' = showtimes \ RowsById(showtimes, id)
           /\ seats' = keptSeats
           /\ reservations' = {r \in reservations :
                                   /\ r.showtime_id # id
                                   /\ r.seat_id \in {s.id : s \in keptSeats}}
           /\ IF RowsById(showtimes, id) = {}
              THEN Send(p, Resp("BadParam", "notDeleted"))
              ELSE Send(p, Resp("Ok", "deleted"))
    /\ UNCHANGED <<movies, counters, now>>

\* -------------------------------------------------------------- editMovie
EditMovieBegin(p, limit, w) ==
    /\ Admit(p, limit)
    /\ \E u \in w.users, id \in w.movies, t \in w.running_times :
         LET req == [NoReq EXCEPT !.id = id, !.running_time = t]
         IN  IF RoleIsUser(users[u])
             THEN Reject(p, "editMovie", u, req)
             ELSE proc' = [proc EXCEPT ![p] =
                      [Enter(p, "editMovie", u, req) EXCEPT !.pc = "check"]]
    /\ UNCHANGED <<store, counters, now>>

EditMovieCheck(p) ==
    /\ At(p, "editMovie", "check")
    /\ IF proc[p].req.id \notin DOMAIN movies
       THEN Send(p, Resp("Conflict", "noMovie"))
       ELSE Goto(p, "update")
    /\ UNCHANGED <<store, counters, now>>

\* UPDATE movies SET ..., running_time = ? with running_time * 60; no statement
\* touches showtimes.
EditMovieUpdate(p) ==
    /\ At(p, "editMovie", "update")
    /\ movies' = [m \in DOMAIN movies |->
                     IF m = proc[p].req.id THEN proc[p].req.running_time * 60 ELSE movies[m]]
    /\ Send(p, Resp("Ok", "edited"))
    /\ UNCHANGED <<showtimes, seats, reservations, counters, now>>

\* --------------------------------------------------------- addReservation
\* reservation_date >= ((showtime_end - showtime_init) / 2) + showtime_init, the
\* division being JavaScript's (no rounding): compared after doubling both sides.
PastCutoff_Late(reservation_date, showtime_init, showtime_end) ==
    2 * reservation_date > (showtime_end - showtime_init) + 2 * showtime_init

PastCutoff(reservation_date, showtime_init, showtime_end) ==
    2 * reservation_date >= (showtime_end - showtime_init) + 2 * showtime_init

Reserving == {q \in Procs : proc[q].op = "addReservation" /\ proc[q].pc \notin {"idle", "done"}}

AddReservationBegin(p, limit, w) ==
    /\ Admit(p, limit)
    /\ nextSeatId + Cardinality(Reserving) <= MaxSeatRows
    /\ \E u \in w.users, id \in w.showtimes, n \in w.seat_numbers :
         LET req == [NoReq EXCEPT !.showtime_id = id, !.seat_number = n]
         IN  IF RoleIsUser(users[u])
             THEN Reject(p, "addReservation", u, req)
             ELSE proc' = [proc EXCEPT ![p] =
                      [Enter(p, "addReservation", u, req) EXCEPT !.pc = "checkShowtime"]]
    /\ UNCHANGED <<store, counters, now>>

AddReservationCheckShowtime(p) ==
    /\ At(p, "addReservation", "checkShowtime")
    /\ IF RowsById(showtimes, proc[p].req.showtime_id) = {}
       THEN Send(p, Resp("Conflict", "noShowtime"))
       ELSE Goto(p, "getShowtime")
    /\ UNCHANGED <<store, counters, now>>

\* Reads the interval and available_seats, then the clock; showtimeRows[0]
\* throws when the showtime has gone meanwhile.
AddReservationGetShowtime(p) ==
    /\ At(p, "addReservation", "getShowtime")
    /\ IF RowsById(showtimes, proc[p].req.showtime_id) = {}
       THEN Send(p, Resp("ServerError", "exception"))
       ELSE LET row == TheRow(showtimes, proc[p].req.showtime_id)
            IN  IF PastCutoff(now, row.showtime_init, row.showtime_end)
                THEN proc' = [proc EXCEPT ![p].pc = "done",
                                          ![p].loc.reservation_date = now,
                                          ![p].loc.available_seats = row.available_seats,
                                          ![p].resp = Resp("Conflict", "cutoff")]
                ELSE proc' = [proc EXCEPT ![p].pc = "getRoom",
                                          ![p].loc.reservation_date = now,
                                          ![p].loc.available_seats = row.available_seats]
    /\ UNCHANGED <<store, counters, now>>

AddReservationGetRoom(p) ==
    /\ At(p, "addReservation", "getRoom")
    /\ IF RowsById(showtimes, proc[p].req.showtime_id) = {}
       THEN Send(p, Resp("ServerError", "exception"))
       ELSE proc' = [proc EXCEPT ![p].pc = "getCapacity",
                                 ![p].loc.room_id =
                                     TheRow(showtimes, proc[p].req.showtime_id).room_id]
    /\ UNCHANGED <<store, counters, now>>

AddReservationGetCapacity_NoUpper(p) ==
    /\ At(p, "addReservation", "getCapacity")
    /\ LET capacity == rooms[proc[p].loc.room_id]
       IN  IF proc[p].req.seat_number <= 0
           THEN Send(p, Resp("Conflict", "range"))
           ELSE proc' = [proc EXCEPT ![p].pc = "checkSeat", ![p].loc.capacity = capacity]
    /\ UNCHANGED <<store, counters, now>>

AddReservationGetCapacity(p) ==
    /\ At(p, "addReservation", "getCapacity")
    /\ LET capacity == rooms[proc[p].loc.room_id]
       IN  IF proc[p].req.seat_number > capacity \/ proc[p].req.seat_number <= 0
           THEN Send(p, Resp("Conflict", "range"))
           ELSE proc' = [proc EXCEPT ![p].pc = "checkSeat", ![p].loc.capacity = capacity]
    /\ UNCHANGED <<store, counters, now>>

SeatsAt(showtime_id, seat_number) ==
    {s \in seats : s.showtime_id = showtime_id /\ s.seat_number = seat_number}

AddReservationCheckSeat(p) ==
    /\ At(p, "addReservation", "checkSeat")
    /\ IF SeatsAt(proc[p].req.showtime_id, proc[p].req.seat_number) # {}
       THEN Send(p, Resp("Conflict", "occupied"))
       ELSE Goto(p, "insertSeat")
    /\ UNCHANGED <<store, counters, now>>

\* INSERT INTO seats: the key is the auto-increment id alone, the only
\* constraint the foreign key to showtimes.
AddReservationInsertSeat(p) ==
    /\ At(p, "addReservation", "insertSeat")
    /\ IF RowsById(showtimes, proc[p].req.showtime_id) = {}
       THEN /\ UNCHANGED <<seats, nextSeatId>>
            /\ Send(p, Resp("ServerError", "foreignKey"))
       ELSE /\ seats' = seats \cup {SeatRow(nextSeatId, proc[p].req.showtime_id,
                                            proc[p].req.seat_number)}
            /\ nextSeatId' = nextSeatId + 1
            /\ Goto(p, "selectSeat")
    /\ UNCHANGED <<movies, showtimes, reservations, nextShowtimeId, nextReservationId, now>>

\* SELECT id FROM seats WHERE showtime_id = ? and seat_number = ? has no ORDER BY:
\* idResult[0] is any of the matching rows.
AddReservationSelectSeat_AnyShowtime(p) ==
    /\ At(p, "addReservation", "selectSeat")
    /\ LET idResult == {s \in seats : s.seat_number = proc[p].req.seat_number}
       IN  IF idResult = {}
           THEN Send(p, Resp("ServerError", "exception"))
           ELSE \E s \in idResult :
                   proc' = [proc EXCEPT ![p].pc = "insertReservation",
                                        ![p].loc.seat_id = s.id]
    /\ UNCHANGED <<store, counters, now>>

AddReservationSelectSeat(p) ==
    /\ At(p, "addReservation", "selectSeat")
    /\ LET idResult == SeatsAt(proc[p].req.showtime_id, proc[p].req.seat_number)
       IN  IF idResult = {}
           THEN Send(p, Resp("ServerError", "exception"))
           ELSE \E s \in idResult :
                   proc' = [proc EXCEPT ![p].pc = "insertReservation",
                                        ![p].loc.seat_id = s.id]
    /\ UNCHANGED <<store, counters, now>>

\* counted: the revision that maintains available_seats (it goes on to the
\* UPDATE); the other revision answers right after the INSERT.
AddReservationInsertReservation(p, counted) ==
    /\ At(p, "addReservation", "insertReservation")
    /\ IF \/ RowsById(showtimes, proc[p].req.showtime_id) = {}
          \/ RowsById(seats, proc[p].loc.seat_id) = {}
       THEN /\ UNCHANGED <<reservations, nextReservationId>>
            /\ Send(p, Resp("ServerError", "foreignKey"))
       ELSE /\ reservations' = reservations \cup
                   {ReservationRow(nextReservationId, proc[p].user,
                                   proc[p].req.showtime_id, proc[p].loc.seat_id)}
            /\ nextReservationId' = nextReservationId + 1
            /\ IF counted THEN Goto(p, "updateSeats") ELSE Send(p, Resp("Ok", "reserved"))
    /\ UNCHANGED <<movies, showtimes, seats, nextShowtimeId, nextSeatId, now>>

\* UPDATE showtimes SET available_seats = ? with the value read in getShowtime
\* minus one.
SetAvailableIn(rows, showtime_id, value) ==
    {IF r.id = showtime_id THEN [r EXCEPT !.available_seats = value] ELSE r : r \in rows}

SetAvailable(showtime_id, value) == SetAvailableIn(showtimes, showtime_id, value)

AddReservationUpdateSeats(p) ==
    /\ At(p, "addReservation", "updateSeats")
    /\ showtimes' = SetAvailable(proc[p].req.showtime_id, proc[p].loc.available_seats - 1)
    /\ Send(p, Resp("Ok", "reserved"))
    /\ UNCHANGED <<movies, seats, reservations, counters, now>>

\* ------------------------------------------------------ deleteReservation
DeleteReservationBegin(p, limit, w) ==
    /\ Admit(p, limit)
    /\ \E u \in w.users, id \in w.reservations :
         proc' = [proc EXCEPT ![p] =
             [Enter(p, "deleteReservation", u, [NoReq EXCEPT !.id = id])
                  EXCEPT !.pc = "check"]]
    /\ UNCHANGED <<store, counters, now>>

DeleteReservationCheck_AnyUser(p) ==
    /\ At(p, "deleteReservation", "check")
    /\ LET rows == RowsById(reservations, proc[p].req.id)
       IN  IF rows = {}
           THEN Send(p, Resp("Conflict", "noReservation"))
           ELSE proc' = [proc EXCEPT
                    ![p].pc = "deleteReservation",
                    ![p].loc.seat_id = TheRow(reservations, proc[p].req.id).seat_id,
                    ![p].loc.showtime_id = TheRow(reservations, proc[p].req.id).showtime_id]
    /\ UNCHANGED <<store, counters, now>>

DeleteReservationCheck(p) ==
    /\ At(p, "deleteReservation", "check")
    /\ LET rows == RowsById(reservations, proc[p].req.id)
       IN  IF rows = {}
           THEN Send(p, Resp("Conflict", "noReservation"))
           ELSE IF proc[p].user # TheRow(reservations, proc[p].req.id).user_id
           THEN Send(p, Resp("Conflict", "notOwner"))
           ELSE proc' = [proc EXCEPT
                    ![p].pc = "deleteReservation",
                    ![p].loc.seat_id = TheRow(reservations, proc[p].req.id).seat_id,
                    ![p].loc.showtime_id = TheRow(reservations, proc[p].req.id).showtime_id]
    /\ UNCHANGED <<store, counters, now>>

DeleteReservationDeleteReservation_Idempotent(p) ==
    /\ At(p, "deleteReservation", "deleteReservation")
    /\ reservations' = reservations \ RowsById(reservations, proc[p].req.id)
    /\ IF RowsById(reservations, proc[p].req.id) = {}
       THEN Send(p, Resp("Ok", "cancelled"))
       ELSE Goto(p, "deleteSeat")
    /\ UNCHANGED <<movies, showtimes, seats, counters, now>>

\* DELETE FROM reservations WHERE id = ?; affectedRows === 0 is answered 400.
DeleteReservationDeleteReservation(p) ==
    /\ At(p, "deleteReservation", "deleteReservation")
    /\ reservations' = reservations \ RowsById(reservations, proc[p].req.id)
    /\ IF RowsById(reservations, proc[p].req.id) = {}
       THEN Send(p, Resp("BadParam", "noReservation"))
       ELSE Goto(p, "deleteSeat")
    /\ UNCHANGED <<movies, showtimes, seats, counters, now>>

\* DELETE FROM seats WHERE id = ?; reservations that reference the seat go with
\* it (ON DELETE CASCADE).
DeleteReservationDeleteSeat(p, counted) ==
    /\ At(p, "deleteReservation", "deleteSeat")
    /\ seats' = seats \ RowsById(seats, proc[p].loc.seat_id)
    /\ reservations' = {r \in reservations : r.seat_id # proc[p].loc.seat_id}
    /\ IF RowsById(seats, proc[p].loc.seat_id) = {}
       THEN Send(p, Resp("BadParam", "noSeat"))
       ELSE IF counted THEN Goto(p, "getAvailable") ELSE Send(p, Resp("Ok", "cancelled"))
    /\ UNCHANGED <<movies, showtimes, counters, now>>

DeleteReservationGetAvailable_Same(p) ==
    /\ At(p, "deleteReservation", "getAvailable")
    /\ IF RowsById(showtimes, proc[p].loc.showtime_id) = {}
       THEN Send(p, Resp("ServerError", "noShowtime"))
       ELSE proc' = [proc EXCEPT
                ![p].pc = "updateSeats",
                ![p].loc.available_seats =
                    TheRow(showtimes, proc[p].loc.showtime_id).available_seats]
    /\ UNCHANGED <<store, counters, now>>

DeleteReservationGetAvailable(p) ==
    /\ At(p, "deleteReservation", "getAvailable")
    /\ IF RowsById(showtimes, proc[p].loc.showtime_id) = {}
       THEN Send(p, Resp("ServerError", "noShowtime"))
       ELSE proc' = [proc EXCEPT
                ![p].pc = "updateSeats",
                ![p].loc.available_seats =
                    TheRow(showtimes, proc[p].loc.showtime_id).available_seats + 1]
    /\ UNCHANGED <<store, counters, now>>

DeleteReservationUpdateSeats(p) ==
    /\ At(p, "deleteReservation", "updateSeats")
    /\ showtimes' = SetAvailable(proc[p].loc.showtime_id, proc[p].loc.available_seats)
    /\ Send(p, Resp("Ok", "cancelled"))
    /\ UNCHANGED <<movies, seats, reservations, counters, now>>

\* -------------------------------------------------------- editReservation
\* No role check and no check of seat_number against the room.
EditReservationBegin(p, limit, w) ==
    /\ Admit(p, limit)
    /\ \E u \in w.users, id \in w.reservations, n \in w.seat_numbers :
         proc' = [proc EXCEPT ![p] =
             [Enter(p, "editReservation", u, [NoReq EXCEPT !.id = id, !.seat_number = n])
                  EXCEPT !.pc = "check"]]
    /\ UNCHANGED <<store, counters, now>>

EditReservationCheck(p) ==
    /\ At(p, "editReservation", "check")
    /\ LET rows == RowsById(reservations, proc[p].req.id)
       IN  IF rows = {}
           THEN Send(p, Resp("Conflict", "noReservation"))
           ELSE IF proc[p].user # TheRow(reservations, proc[p].req.id).user_id
           THEN Send(p, Resp("Conflict", "notOwner"))
           ELSE proc' = [proc EXCEPT
                    ![p].pc = "checkSeat",
                    ![p].loc.seat_id = TheRow(reservations, proc[p].req.id).seat_id,
                    ![p].loc.showtime_id = TheRow(reservations, proc[p].req.id).showtime_id]
    /\ UNCHANGED <<store, counters, now>>

EditReservationCheckSeat(p) ==
    /\ At(p, "editReservation", "checkSeat")
    /\ IF SeatsAt(proc[p].loc.showtime_id, proc[p].req.seat_number) # {}
       THEN Send(p, Resp("Conflict", "occupied"))
       ELSE Goto(p, "updateSeat")
    /\ UNCHANGED <<store, counters, now>>

EditReservationUpdateSeat_Showtime(p) ==
    /\ At(p, "editReservation", "updateSeat")
    /\ IF RowsById(seats, proc[p].loc.seat_id) = {}
       THEN /\ UNCHANGED seats
            /\ Send(p, Resp("BadParam", "noSeat"))
       ELSE /\ seats' = {IF s.showtime_id = proc[p].loc.showtime_id
                          THEN [s EXCEPT !.seat_number = proc[p].req.seat_number]
                          ELSE s : s \in seats}
            /\ Send(p, Resp("Ok", "edited"))
    /\ UNCHANGED <<movies, showtimes, reservations, counters, now>>

\* UPDATE seats SET seat_number = ? WHERE id = ?
EditReservationUpdateSeat(p) ==
    /\ At(p, "editReservation", "updateSeat")
    /\ IF RowsById(seats, proc[p].loc.seat_id) = {}
       THEN /\ UNCHANGED seats
            /\ Send(p, Resp("BadParam", "noSeat"))
       ELSE /\ seats' = {IF s.id = proc[p].loc.seat_id
                          THEN [s EXCEPT !.seat_number = proc[p].req.seat_number]
                          ELSE s : s \in seats}
            /\ Send(p, Resp("Ok", "edited"))
    /\ UNCHANGED <<movies, showtimes, reservations, counters, now>>

\* ------------------------------------------- reserve, cancel, reserve again
\* The client whose reservation was accepted cancels it with its next request.
RoundTripCancel(p) ==
    /\ proc[p].pc = "done" /\ proc[p].op = "addReservation"
    /\ proc[p].resp.kind = "Ok" /\ proc[p].trip.step = 0
    /\ \E r \in reservations :
          /\ r.user_id = proc[p].user
          /\ r.showtime_id = proc[p].req.showtime_id
          /\ r.seat_id = proc[p].loc.seat_id
          /\ proc' = [proc EXCEPT ![p] =
                 [Enter(p, "deleteReservation", proc[p].user, [NoReq EXCEPT !.id = r.id])
                      EXCEPT !.pc = "check",
                             !.trip = [step |-> 1,
                                       showtime_id |-> proc[p].req.showtime_id,
                                       seat_number |-> proc[p].req.seat_number,
                                       available_seats |->
                                           TheRow(proc[p].pre.showtimes,
                                                  proc[p].req.showtime_id).available_seats]]]
    /\ UNCHANGED <<store, counters, now>>

\* The client whose cancellation was accepted asks for the same seat again.
RoundTripReserve(p) ==
    /\ proc[p].pc = "done" /\ proc[p].op = "deleteReservation"
    /\ proc[p].resp.kind = "Ok" /\ proc[p].trip.step = 1
    /\ nextSeatId <= MaxSeatRows
    /\ LET req == [NoReq EXCEPT !.showtime_id = proc[p].trip.showtime_id,
                                !.seat_number = proc[p].trip.seat_number]
           e == [Enter(p, "addReservation", proc[p].user, req)
                     EXCEPT !.trip = [proc[p].trip EXCEPT !.step = 2]]
       IN  proc' = [proc EXCEPT ![p] =
               IF RoleIsUser(users[proc[p].user])
               THEN [e EXCEPT !.pc = "done", !.resp = Resp("Unauthorized", "role")]
               ELSE [e EXCEPT !.pc = "checkShowtime"]]
    /\ UNCHANGED <<store, counters, now>>

\* ------------------------------------------------- failing store statements
\* db.promise().query rejects (connection lost, deadlock victim, ...): inside the
\* handler's try block the catch answers with a server error.  Nothing is undone.
AddReservationFails(p) ==
    /\ proc[p].op = "addReservation"
    /\ proc[p].pc \notin {"idle", "done", "lost"}
    /\ Send(p, Resp("ServerError", "exception"))
    /\ UNCHANGED <<store, counters, now>>

\* The awaited SELECT rejects (catch), or a callback-style DELETE calls back with
\* err: both answer with a server error.
DeleteReservationFails(p) ==
    /\ proc[p].op = "deleteReservation"
    /\ proc[p].pc \in {"check", "deleteReservation", "deleteSeat"}
    /\ Send(p, Resp("ServerError", "exception"))
    /\ UNCHANGED <<store, counters, now>>

\* The two statements awaited inside the async callback of the seat DELETE run
\* after the handler's try block has been left: their rejection is caught by
\* nobody and no response is sent.
DeleteReservationRejects(p) ==
    /\ proc[p].op = "deleteReservation"
    /\ proc[p].pc \in {"getAvailable", "updateSeats"}
    /\ Goto(p, "lost")
    /\ UNCHANGED <<store, counters, now>>

\* The client of a request that is never answered gives up.
Drop(p) ==
    /\ proc[p].pc = "lost"
    /\ proc' = [proc EXCEPT ![p] = Idle]
    /\ UNCHANGED <<store, counters, now>>

\* ------------------------------------------------------------- scheduling
\* The requests a specification sends: who calls, and with which body.
AnyRequest ==
    [users |-> DOMAIN users, movies |-> ReqMovieIds, rooms |-> ReqRoomIds,
     starts |-> ReqStarts, showtimes |-> ReqShowtimeIds,
     reservations |-> ReqReservationIds, seat_numbers |-> ReqSeatNumbers,
     running_times |-> ReqRunningTimes, last_showtime |-> MaxShowtimes]

\* An admin scheduling existing movies into room 1 at the first two slots, and
\* moving the first showtime.
RoomOneRequest ==
    [AnyRequest EXCEPT !.users = {1}, !.movies = DOMAIN InitialMovies, !.rooms = {1},
                       !.starts = {TURNAROUND, 2 * TURNAROUND}, !.showtimes = {1}]

AddShowtime(p, limit, w) ==
    \/ AddShowtimeBegin(p, limit, w)
    \/ AddShowtimeCheckMovie(p)
    \/ AddShowtimeGetCapacity(p)
    \/ AddShowtimeGetMovieTime(p)
    \/ AddShowtimeGetShowtimes(p)
    \/ AddShowtimeInsert(p)

EditShowtime(p, limit, w) ==
    \/ EditShowtimeBegin(p, limit, w)
    \/ EditShowtimeCheckMovie(p)
    \/ EditShowtimeGetCapacity(p)
    \/ EditShowtimeGetAvailable(p)
    \/ EditShowtimeGetMovieTime(p)
    \/ EditShowtimeGetShowtimes(p)
    \/ EditShowtimeUpdate(p)

DeleteShowtime(p, limit, w) ==
    \/ DeleteShowtimeBegin(p, limit, w)
    \/ DeleteShowtimeCheck(p)
    \/ DeleteShowtimeDelete(p)

\* Scheduling requests, each run to completion before the next arrives.
NextSched ==
    \/ \E p \in Sequential :
          \/ AddShowtime(p, 1, AnyRequest)
          \/ EditShowtime(p, 1, AnyRequest)
          \/ DeleteShowtime(p, 1, AnyRequest)
          \/ Respond(p)
    \/ Tick(TRUE, SchedInstants)
SpecSched == Init /\ [][NextSched]_vars

EditMovie(p, limit, w) ==
    \/ EditMovieBegin(p, limit, w)
    \/ EditMovieCheck(p)
    \/ EditMovieUpdate(p)

\* Showtimes scheduled into room 1 and movies edited, each request run to
\* completion before the next arrives.
MovieRequest == [AnyRequest EXCEPT !.rooms = {1}]

NextMovie ==
    \E p \in Sequential :
        \/ AddShowtime(p, 1, MovieRequest)
        \/ EditMovie(p, 1, MovieRequest)
        \/ Respond(p)
SpecMovie == Init /\ [][NextMovie]_vars

\* An admin scheduling the movies into room 1 at the slots and 1000 s after
\* them, one showtime more than elsewhere, each request run to completion.
ScanRequest ==
    [AnyRequest EXCEPT !.users = {1}, !.movies = DOMAIN InitialMovies, !.rooms = {1},
                       !.starts = ReqStarts \cup {s + 1000 : s \in ReqStarts},
                       !.last_showtime = MaxShowtimes + 1]

NextSchedScan ==
    \E p \in Sequential :
        \/ AddShowtime(p, 1, ScanRequest)
        \/ Respond(p)
SpecSchedScan == Init /\ [][NextSchedScan]_vars

\* Room 1 holds one showtime of any whole number of slots from two up (its
\* movie's running time has been edited since), and an admin schedules the
\* movies into the room at any slot.
LongSlots == {k * TURNAROUND : k \in 1..(MaxSlot + 3)}

InitLong ==
    /\ movies = InitialMovies
    /\ \E es \in LongSlots, ee \in LongSlots :
          /\ ee - es >= 2 * TURNAROUND
          /\ showtimes = {ShowtimeRow(1, 1, 1, es, ee, rooms[1], rooms[1])}
    /\ seats = {}
    /\ reservations = {}
    /\ nextShowtimeId = 2
    /\ nextSeatId = 1
    /\ nextReservationId = 1
    /\ now = 0
    /\ proc = [p \in Procs |-> Idle]

LongRequest ==
    [AnyRequest EXCEPT !.users = {1}, !.movies = DOMAIN InitialMovies, !.rooms = {1},
                       !.starts = LongSlots]

NextClassify ==
    \E p \in Sequential :
        \/ AddShowtime(p, 1, LongRequest)
        \/ Respond(p)
SpecClassify == InitLong /\ [][NextClassify]_vars

\* An admin scheduling into room 1 and moving the first showtime, one request at
\* a time, while the clock passes the requested starts.
NextSchedClock ==
    \/ \E p \in Sequential :
          \/ AddShowtime(p, 1, RoomOneRequest)
          \/ EditShowtime(p, 1, RoomOneRequest)
          \/ Respond(p)
    \/ Tick(TRUE, SlotInstants)
SpecSchedClock == Init /\ [][NextSchedClock]_vars

\* Scheduling requests for one room, interleaved between store statements.
NextSchedConc ==
    \E p \in Procs :
        \/ AddShowtime(p, NumProcs, RoomOneRequest)
        \/ EditShowtime(p, NumProcs, RoomOneRequest)
        \/ Respond(p)
SpecSchedConc == Init /\ [][NextSchedConc]_vars

\* ------------------------------------------------------------ reservations
\* The showtimes once an admin has scheduled, at time 0, movie 1 into room 1 at
\* the first slot and movie 2 into room 2 at the second.
Scheduled ==
    {ShowtimeRow(1, 1, 1, TURNAROUND, TURNAROUND + InitialMovies[1] + TURNAROUND,
                 rooms[1], rooms[1]),
     ShowtimeRow(2, 2, 2, 2 * TURNAROUND, 2 * TURNAROUND + InitialMovies[2] + TURNAROUND,
                 rooms[2], rooms[2])}

InitScheduled ==
    /\ movies = InitialMovies
    /\ showtimes = Scheduled
    /\ seats = {}
    /\ reservations = {}
    /\ nextShowtimeId = 3
    /\ nextSeatId = 1
    /\ nextReservationId = 1
    /\ now = 0
    /\ proc = [p \in Procs |-> Idle]

\* The same store once user 1 has reserved seat 1 of showtime 1.
ReservedShowtimes == SetAvailableIn(Scheduled, 1, rooms[1] - 1)
ReservedSeats == {SeatRow(1, 1, 1)}

InitReserved ==
    /\ movies = InitialMovies
    /\ showtimes = ReservedShowtimes
    /\ seats = ReservedSeats
    /\ reservations = {ReservationRow(1, 1, 1, 1)}
    /\ nextShowtimeId = 3
    /\ nextSeatId = 2
    /\ nextReservationId = 2
    /\ now = 0
    /\ proc = [p \in Procs |-> Idle]

AddReservation(p, limit, w, counted) ==
    \/ AddReservationBegin(p, limit, w)
    \/ AddReservationCheckShowtime(p)
    \/ AddReservationGetShowtime(p)
    \/ AddReservationGetRoom(p)
    \/ AddReservationGetCapacity(p)
    \/ AddReservationCheckSeat(p)
    \/ AddReservationInsertSeat(p)
    \/ AddReservationSelectSeat(p)
    \/ AddReservationInsertReservation(p, counted)

DeleteReservation(p, limit, w, counted) ==
    \/ DeleteReservationBegin(p, limit, w)
    \/ DeleteReservationCheck(p)
    \/ DeleteReservationDeleteReservation(p)
    \/ DeleteReservationDeleteSeat(p, counted)

EditReservation(p, limit, w) ==
    \/ EditReservationBegin(p, limit, w)
    \/ EditReservationCheck(p)
    \/ EditReservationCheckSeat(p)
    \/ EditReservationUpdateSeat(p)

\* Reservation requests, each run to completion before the next arrives.
Next ==
    \/ \E p \in Sequential :
          \/ AddReservation(p, 1, AnyRequest, TRUE)
          \/ AddReservationUpdateSeats(p)
          \/ DeleteReservation(p, 1, AnyRequest, TRUE)
          \/ DeleteReservationGetAvailable(p)
          \/ DeleteReservationUpdateSeats(p)
          \/ Respond(p)
    \/ Tick(TRUE, Instants)
Spec == InitScheduled /\ [][Next]_vars

\* The same requests, a reservation being followed at times by its cancellation
\* and a second reservation of the same seat.
NextRoundTrip ==
    \/ \E p \in Sequential :
          \/ AddReservation(p, 1, AnyRequest, TRUE)
          \/ AddReservationUpdateSeats(p)
          \/ DeleteReservation(p, 1, AnyRequest, TRUE)
          \/ DeleteReservationGetAvailable(p)
          \/ DeleteReservationUpdateSeats(p)
          \/ RoundTripCancel(p)
          \/ RoundTripReserve(p)
          \/ Respond(p)
    \/ Tick(TRUE, Instants)
SpecRoundTrip == InitScheduled /\ [][NextRoundTrip]_vars

\* The same requests served by the revision of the handlers that does not
\* touch available_seats.
NextUncounted ==
    \/ \E p \in Sequential :
          \/ AddReservation(p, 1, AnyRequest, FALSE)
          \/ DeleteReservation(p, 1, AnyRequest, FALSE)
          \/ Respond(p)
    \/ Tick(TRUE, Instants)
SpecUncounted == InitScheduled /\ [][NextUncounted]_vars

\* Reservation requests run one at a time against a store whose statements can
\* fail.
NextFault ==
    \/ \E p \in Sequential :
          \/ AddReservation(p, 1, AnyRequest, TRUE)
          \/ AddReservationUpdateSeats(p)
          \/ AddReservationFails(p)
          \/ DeleteReservation(p, 1, AnyRequest, TRUE)
          \/ DeleteReservationGetAvailable(p)
          \/ DeleteReservationUpdateSeats(p)
          \/ DeleteReservationFails(p)
          \/ DeleteReservationRejects(p)
          \/ Respond(p)
          \/ Drop(p)
    \/ Tick(TRUE, Instants)
SpecFault == InitScheduled /\ [][NextFault]_vars

\* The store answers every statement it has been sent, with a result or with an
\* error: a handler that waits for a statement goes on.  Nothing obliges a
\* client to send a request, to read a response or to give up on one.
StoreAnswers(p) ==
    \/ AddReservationCheckShowtime(p)
    \/ AddReservationGetShowtime(p)
    \/ AddReservationGetRoom(p)
    \/ AddReservationGetCapacity(p)
    \/ AddReservationCheckSeat(p)
    \/ AddReservationInsertSeat(p)
    \/ AddReservationSelectSeat(p)
    \/ AddReservationInsertReservation(p, TRUE)
    \/ AddReservationUpdateSeats(p)
    \/ AddReservationFails(p)
    \/ DeleteReservationCheck(p)
    \/ DeleteReservationDeleteReservation(p)
    \/ DeleteReservationDeleteSeat(p, TRUE)
    \/ DeleteReservationGetAvailable(p)
    \/ DeleteReservationUpdateSeats(p)
    \/ DeleteReservationFails(p)
    \/ DeleteReservationRejects(p)

SpecFaultFair ==
    InitScheduled /\ [][NextFault]_vars /\ \A p \in Sequential : WF_vars(StoreAnswers(p))

\* One request per process, interleaved between store statements, on the store
\* that already holds a reservation.
NextConc ==
    \E p \in Procs :
        \/ AddReservation(p, NumProcs, AnyRequest, TRUE)
        \/ AddReservationUpdateSeats(p)
        \/ DeleteReservation(p, NumProcs, AnyRequest, TRUE)
        \/ DeleteReservationGetAvailable(p)
        \/ DeleteReservationUpdateSeats(p)
SpecConc == InitReserved /\ [][NextConc]_vars

\* The store once an admin has scheduled movie 1 into room 1 at the first slot and
\* reserved its seat 1.
InitSold ==
    /\ movies = InitialMovies
    /\ showtimes = {r \in ReservedShowtimes : r.id = 1}
    /\ seats = ReservedSeats
    /\ reservations = {ReservationRow(1, 1, 1, 1)}
    /\ nextShowtimeId = 2
    /\ nextSeatId = 2
    /\ nextReservationId = 2
    /\ now = 0
    /\ proc = [p \in Procs |-> Idle]

\* Scheduling requests run one at a time on a store that holds a reservation.
NextSchedSold ==
    \E p \in Sequential :
        \/ AddShowtime(p, 1, AnyRequest)
        \/ EditShowtime(p, 1, AnyRequest)
        \/ DeleteShowtime(p, 1, AnyRequest)
        \/ Respond(p)
SpecSchedSold == InitSold /\ [][NextSchedSold]_vars

\* Reservations made, moved to another seat and cancelled, each request run to
\* completion before the next arrives.
NextReassign ==
    \/ \E p \in Sequential :
          \/ AddReservation(p, 1, AnyRequest, TRUE)
          \/ AddReservationUpdateSeats(p)
          \/ EditReservation(p, 1, AnyRequest)
          \/ DeleteReservation(p, 1, AnyRequest, TRUE)
          \/ DeleteReservationGetAvailable(p)
          \/ DeleteReservationUpdateSeats(p)
          \/ Respond(p)
    \/ Tick(TRUE, Instants)
SpecReassign == InitScheduled /\ [][NextReassign]_vars

\* One reservation or one move to another seat per process, interleaved between
\* store statements.
NextReassignConc ==
    \E p \in Procs :
        \/ AddReservation(p, NumProcs, AnyRequest, TRUE)
        \/ AddReservationUpdateSeats(p)
        \/ EditReservation(p, NumProcs, AnyRequest)
SpecReassignConc == InitReserved /\ [][NextReassignConc]_vars

\* An admin reserving seats of the two showtimes while showtimes are deleted.
CascadeRequest ==
    [AnyRequest EXCEPT !.users = {1}, !.showtimes = {1, 2}, !.seat_numbers = {1, 2}]

\* One reservation or showtime deletion per process, interleaved between store
\* statements.
NextCascade ==
    \E p \in Procs :
        \/ AddReservation(p, NumProcs, CascadeRequest, TRUE)
        \/ AddReservationUpdateSeats(p)
        \/ DeleteShowtime(p, NumProcs, CascadeRequest)
SpecCascade == InitReserved /\ [][NextCascade]_vars

\* An admin reserving and cancelling seats of showtime 1 while the showtime is
\* edited in place.
EditRaceRequest ==
    [AnyRequest EXCEPT !.users = {1}, !.movies = {1}, !.rooms = {1},
                       !.starts = {TURNAROUND}, !.showtimes = {1},
                       !.reservations = {1}, !.seat_numbers = {1, 2}]

\* One reservation, cancellation or edit of the showtime per process, interleaved
\* between store statements.
NextEditRace ==
    \E p \in Procs :
        \/ AddReservation(p, NumProcs, EditRaceRequest, TRUE)
        \/ AddReservationUpdateSeats(p)
        \/ DeleteReservation(p, NumProcs, EditRaceRequest, TRUE)
        \/ DeleteReservationGetAvailable(p)
        \/ DeleteReservationUpdateSeats(p)
        \/ EditShowtime(p, NumProcs, EditRaceRequest)
SpecEditRace == InitReserved /\ [][NextEditRace]_vars

\* One cancellation per process, interleaved between store statements, on the
\* store that holds a reservation.
NextCancelRace ==
    \E p \in Procs :
        \/ DeleteReservation(p, NumProcs, AnyRequest, TRUE)
        \/ DeleteReservationGetAvailable(p)
        \/ DeleteReservationUpdateSeats(p)
SpecCancelRace == InitReserved /\ [][NextCancelRace]_vars

\* An admin reserving seats of the stored showtimes and moving them between the
\* rooms, each request run to completion before the next arrives.
SoldOutRequest ==
    [AnyRequest EXCEPT !.users = {1}, !.movies = DOMAIN InitialMovies,
                       !.rooms = DOMAIN rooms, !.showtimes = {1, 2}]

NextSoldOut ==
    \E p \in Sequential :
        \/ AddReservation(p, 1, SoldOutRequest, TRUE)
        \/ AddReservationUpdateSeats(p)
        \/ EditShowtime(p, 1, SoldOutRequest)
        \/ Respond(p)
SpecSoldOut == InitScheduled /\ [][NextSoldOut]_vars

\* Scheduling requests of both users for room 1 with missing fields, unknown
\* movies and rooms, and starts the clock passes, one request at a time.
RefusedRequest ==
    [AnyRequest EXCEPT !.movies = {0, 1, 3}, !.rooms = {0, 1, 3},
                       !.starts = {0} \cup ReqStarts, !.showtimes = {1}]

NextSchedRefused ==
    \/ \E p \in Sequential :
          \/ AddShowtime(p, 1, RefusedRequest)
          \/ EditShowtime(p, 1, RefusedRequest)
          \/ Respond(p)
    \/ Tick(TRUE, SchedInstants)
SpecSchedRefused == Init /\ [][NextSchedRefused]_vars

\* ================================================================ claims
Intersect(a, b) == a.showtime_init < b.showtime_end /\ b.showtime_init < a.showtime_end

DoneWith(p, op, kind) ==
    proc[p].pc = "done" /\ proc[p].op = op /\ proc[p].resp.kind = kind

\* C1: when createShowtime, editShowtime and deleteShowtime each run to
\* completion, any two distinct showtimes A, B of one room satisfy
\* A.end <= B.start or B.end <= A.start.
C1_NoOverlap ==
    \A a \in showtimes, b \in showtimes :
        (a.id # b.id /\ a.room_id = b.room_id)
            => (a.showtime_end <= b.showtime_init \/ b.showtime_end <= a.showtime_init)

\* Two showtimes share a room back to back, the later state coming from an edit
\* that was accepted.
C1_Witness ==
    /\ \E a \in showtimes, b \in showtimes :
          a.id # b.id /\ a.room_id = b.room_id /\ a.showtime_end = b.showtime_init
    /\ \E p \in Procs : DoneWith(p, "editShowtime", "Ok")

\* C2: also when requests interleave between store statements, two requests
\* that target one room with intersecting intervals do not both commit: no
\* two stored showtimes of a room intersect.
C2_RaceExclusion ==
    \A a \in showtimes, b \in showtimes :
        (a.id # b.id /\ a.room_id = b.room_id) => ~Intersect(a, b)

SeatsOf(showtime_id) == {s \in seats : s.showtime_id = showtime_id}
Available(rows, showtime_id) == TheRow(rows, showtime_id).available_seats
Finished(p, op) == proc[p].pc = "done" /\ proc[p].op = op
Unchanged(p) ==
    /\ showtimes = proc[p].pre.showtimes
    /\ seats = proc[p].pre.seats
    /\ reservations = proc[p].pre.reservations

\* C3: two reserveSeat attempts for the same (showtime, seat number) that are
\* otherwise valid end with exactly one success and one Conflict, and exactly
\* one Seat record for that pair exists afterwards.
C3_NoDoubleBooking ==
    \A p \in Procs, q \in Procs :
        LET id == proc[p].req.showtime_id
            n == proc[p].req.seat_number
        IN  ( /\ p # q
              /\ Finished(p, "addReservation") /\ Finished(q, "addReservation")
              /\ users[proc[p].user] # "user" /\ users[proc[q].user] # "user"
              /\ proc[q].req.showtime_id = id /\ proc[q].req.seat_number = n
              /\ RowsById(ReservedShowtimes, id) # {}
              /\ n >= 1 /\ n <= rooms[TheRow(ReservedShowtimes, id).room_id]
              /\ {s \in ReservedSeats : s.showtime_id = id /\ s.seat_number = n} = {} )
            => /\ {proc[p].resp.kind, proc[q].resp.kind} = {"Ok", "Conflict"}
               /\ Cardinality(SeatsAt(id, n)) = 1

\* C4: in every reachable state, also between the store writes of a request in
\* flight, availableSeats + number of Seat records = totalSeats for every
\* showtime.
C4_CapacityConservation ==
    \A st \in showtimes :
        st.available_seats + Cardinality(SeatsOf(st.id)) = st.total_seats

\* C5: run alone, a successful reserveSeat lowers availableSeats of its showtime
\* by exactly 1 and a successful cancelReservation raises it by exactly 1, in
\* every revision of the handlers.
C5_CounterStep ==
    \A p \in Procs :
        /\ DoneWith(p, "addReservation", "Ok") =>
              Available(showtimes, proc[p].req.showtime_id)
                  = Available(proc[p].pre.showtimes, proc[p].req.showtime_id) - 1
        /\ DoneWith(p, "deleteReservation", "Ok") =>
              Available(showtimes, proc[p].loc.showtime_id)
                  = Available(proc[p].pre.showtimes, proc[p].loc.showtime_id) + 1

\* C6: once interleaved reserveSeat and cancelReservation calls have all
\* completed, availableSeats is its initial value minus the successful
\* reservations plus the successful cancellations.
C6_NoLostUpdate ==
    (\A p \in Procs : proc[p].pc = "done") =>
        \A st \in showtimes :
            st.available_seats =
                Available(ReservedShowtimes, st.id)
                - Cardinality({p \in Procs : /\ DoneWith(p, "addReservation", "Ok")
                                             /\ proc[p].req.showtime_id = st.id})
                + Cardinality({p \in Procs : /\ DoneWith(p, "deleteReservation", "Ok")
                                             /\ proc[p].loc.showtime_id = st.id})

\* C7: a reserveSeat that has returned a failure has left no Seat or Reservation
\* record behind and availableSeats at its value before the call.
C7_ReserveAllOrNothing ==
    \A p \in Procs :
        (Finished(p, "addReservation") /\ proc[p].resp.kind # "Ok") => Unchanged(p)

\* C8: once cancelReservation has returned, either the Reservation and its Seat
\* record are both deleted and availableSeats is 1 higher, or all three are as
\* before the call.
C8_CancelAllOrNothing ==
    \A p \in Procs :
        Finished(p, "deleteReservation") =>
            \/ Unchanged(p)
            \/ LET pre == proc[p].pre
                   r == TheRow(pre.reservations, proc[p].req.id)
               IN  /\ RowsById(pre.reservations, proc[p].req.id) # {}
                   /\ reservations = pre.reservations \ {r}
                   /\ seats = pre.seats \ RowsById(pre.seats, r.seat_id)
                   /\ showtimes = SetAvailableIn(pre.showtimes, r.showtime_id,
                                      Available(pre.showtimes, r.showtime_id) + 1)

\* C9: for a caller the role check lets through and an existing showtime,
\* reserveSeat succeeds only when now is strictly before the midpoint
\* start + (end - start)/2; from the midpoint on it returns Conflict and creates
\* no Seat or Reservation record; strictly before it, with a free seat number in
\* range, it succeeds (for a window of 3600 s: at start + 1799, not at
\* start + 1800 or start + 1801).
C9_Cutoff ==
    \A p \in Procs :
        ( /\ Finished(p, "addReservation")
          /\ users[proc[p].user] # "user"
          /\ RowsById(proc[p].pre.showtimes, proc[p].req.showtime_id) # {} )
        => LET pre == proc[p].pre
               st == TheRow(pre.showtimes, proc[p].req.showtime_id)
               n == proc[p].req.seat_number
               before == 2 * now < st.showtime_init + st.showtime_end
           IN  /\ proc[p].resp.kind = "Ok" => before
               /\ ~before => /\ proc[p].resp = Resp("Conflict", "cutoff")
                             /\ seats = pre.seats
                             /\ reservations = pre.reservations
               /\ ( /\ before
                    /\ n >= 1 /\ n <= rooms[st.room_id]
                    /\ {s \in pre.seats : s.showtime_id = st.id /\ s.seat_number = n} = {} )
                  => proc[p].resp.kind = "Ok"

\* A reservation accepted one second before the midpoint of a 3600 s window.
C9_Witness ==
    \E p \in Procs :
        /\ DoneWith(p, "addReservation", "Ok")
        /\ \E st \in showtimes :
              /\ st.id = proc[p].req.showtime_id
              /\ st.showtime_end = st.showtime_init + 3600
              /\ now = st.showtime_init + 1799

\* C10: reserveSeat called with role user on an existing showtime, before the
\* cutoff, for a free seat number in range, succeeds and is not Unauthorized.
C10_UserCanReserve ==
    \A p \in Procs :
        ( /\ Finished(p, "addReservation")
          /\ users[proc[p].user] = "user"
          /\ RowsById(proc[p].pre.showtimes, proc[p].req.showtime_id) # {} )
        => LET pre == proc[p].pre
               st == TheRow(pre.showtimes, proc[p].req.showtime_id)
               n == proc[p].req.seat_number
           IN  ( /\ 2 * now < st.showtime_init + st.showtime_end
                 /\ n >= 1 /\ n <= rooms[st.room_id]
                 /\ {s \in pre.seats : s.showtime_id = st.id /\ s.seat_number = n} = {} )
               => proc[p].resp.kind = "Ok"
\* C11: createShowtime, editShowtime and deleteShowtime called by an actor whose
\* role is not admin return Unauthorized and leave showtimes, seats and
\* reservations unchanged.
C11_SchedulingNeedsAdmin ==
    \A p \in Procs :
        ( /\ proc[p].pc = "done"
          /\ proc[p].op \in {"addShowtime", "editShowtime", "deleteShowtime"}
          /\ users[proc[p].user] # "admin" )
        => /\ proc[p].resp.kind = "Unauthorized"
           /\ Unchanged(p)

\* A caller with role user has been turned away by deleteShowtime while a
\* showtime is stored.
C11_Witness ==
    /\ showtimes # {}
    /\ \E p \in Procs : /\ DoneWith(p, "deleteShowtime", "Unauthorized")
                         /\ users[proc[p].user] = "user"

\* C12: in every reachable state, after any sequence of createShowtime,
\* editShowtime (also into a room of another capacity), reserveSeat,
\* cancelReservation and reassignSeat, every showtime has
\* 0 <= availableSeats <= totalSeats.
C12_AvailableInRange ==
    \A st \in showtimes :
        0 <= st.available_seats /\ st.available_seats <= st.total_seats

\* C13: in every reachable state every Seat and every Reservation references a
\* showtime that still exists, also when deleteShowtime interleaves with a
\* reserveSeat in flight for the same showtime; once deleteShowtime has
\* succeeded no Seat or Reservation of that showtime remains.
C13_NoOrphans ==
    /\ \A s \in seats : RowsById(showtimes, s.showtime_id) # {}
    /\ \A r \in reservations : RowsById(showtimes, r.showtime_id) # {}
    /\ \A p \in Procs :
          DoneWith(p, "deleteShowtime", "Ok") =>
              /\ SeatsOf(proc[p].req.id) = {}
              /\ {r \in reservations : r.showtime_id = proc[p].req.id} = {}

\* A showtime that had a seat was deleted while a reserveSeat for it was past its
\* checks: the seat INSERT was refused.
C13_Witness ==
    \E p \in Procs, q \in Procs :
        /\ DoneWith(p, "deleteShowtime", "Ok")
        /\ {s \in proc[p].pre.seats : s.showtime_id = proc[p].req.id} # {}
        /\ Finished(q, "addReservation")
        /\ proc[q].req.showtime_id = proc[p].req.id
        /\ proc[q].resp = Resp("ServerError", "foreignKey")

\* C14: whenever no reserveSeat or cancelReservation is in flight, every
\* Reservation references an existing Seat record and every Seat record is
\* referenced by exactly one Reservation.
C14_OneToOne ==
    (\A p \in Procs : proc[p].pc \in {"idle", "done"}) =>
        /\ \A r \in reservations : RowsById(seats, r.seat_id) # {}
        /\ \A s \in seats : Cardinality({r \in reservations : r.seat_id = s.id}) = 1

\* C15: in every reachable state, after any sequence of reserveSeat,
\* reassignSeat and editShowtime calls, every Seat record has
\* 1 <= seatNumber <= capacity of the room of its showtime.
C15_SeatInRange ==
    \A s \in seats :
        /\ s.seat_number >= 1
        /\ \A st \in RowsById(showtimes, s.showtime_id) :
              s.seat_number <= rooms[st.room_id]

\* C16: in every reachable state no two Seat records share the same
\* (showtime, seatNumber), also when reassignSeat to seat N interleaves with a
\* reserveSeat for seat N or with another reassignSeat to seat N.
C16_SeatUnique ==
    \A s \in seats, t \in seats :
        (s.showtime_id = t.showtime_id /\ s.seat_number = t.seat_number) => s.id = t.id

\* C17: in every reachable state every showtime satisfies
\* end = start + (runtime of the movie it references) + 1800, also after the
\* movie's runtime has been changed by a movie edit.
C17_EndFromRuntime ==
    \A st \in showtimes :
        /\ st.movie_id \in DOMAIN movies
        /\ st.showtime_end = st.showtime_init + movies[st.movie_id] + TURNAROUND

\* C18: a successful createShowtime adds exactly one showtime, whose totalSeats
\* and availableSeats both equal the capacity of the given room, and changes no
\* other showtime, no seat and no reservation.
C18_CreateEffect ==
    \A p \in Procs :
        DoneWith(p, "addShowtime", "Ok") =>
            LET pre == proc[p].pre
                req == proc[p].req
                added == showtimes \ pre.showtimes
            IN  /\ pre.showtimes \subseteq showtimes
                /\ Cardinality(added) = 1
                /\ \A r \in added :
                      /\ RowsById(pre.showtimes, r.id) = {}
                      /\ r.movie_id = req.movie_id
                      /\ r.room_id = req.room_id
                      /\ r.showtime_init = req.showtime_init
                      /\ r.total_seats = rooms[req.room_id]
                      /\ r.available_seats = rooms[req.room_id]
                /\ seats = pre.seats
                /\ reservations = pre.reservations

\* A showtime was added to room 2 while another showtime with a reserved seat,
\* whose counter is below its total, is stored.
C18_Witness ==
    \E p \in Procs :
        /\ DoneWith(p, "addShowtime", "Ok")
        /\ proc[p].req.room_id = 2
        /\ seats # {}
        /\ \E st \in proc[p].pre.showtimes : st.available_seats < st.total_seats

\* The showtimes a scheduling request is compared with: those of its room at the
\* call, but for the showtime an edit is moving.
Others(p) ==
    {r \in proc[p].pre.showtimes :
        /\ r.room_id = proc[p].req.room_id
        /\ (proc[p].op = "editShowtime" => r.id # proc[p].req.id)}

\* An admin's createShowtime or editShowtime that passes every check before the
\* overlap scan: start in the future, movie and room exist, and for an edit the
\* showtime exists.
Schedulable(p) ==
    /\ proc[p].pc = "done"
    /\ proc[p].op \in {"addShowtime", "editShowtime"}
    /\ users[proc[p].user] = "admin"
    /\ now < proc[p].req.showtime_init
    /\ proc[p].req.movie_id \in DOMAIN movies
    /\ proc[p].req.room_id \in DOMAIN rooms
    /\ (proc[p].op = "editShowtime" => RowsById(proc[p].pre.showtimes, proc[p].req.id) # {})

CandidateEnd(p) == proc[p].req.showtime_init + movies[proc[p].req.movie_id] + TURNAROUND

\* C19: createShowtime and editShowtime whose interval starts exactly at an
\* existing showtime's end, or ends exactly at an existing showtime's start, in
\* the same room and intersecting no other showtime, succeed.
C19_BackToBack ==
    \A p \in Procs :
        ( /\ Schedulable(p)
          /\ \E r \in Others(p) : \/ r.showtime_end = proc[p].req.showtime_init
                                  \/ CandidateEnd(p) = r.showtime_init
          /\ \A r \in Others(p) : ~ ( /\ r.showtime_init < CandidateEnd(p)
                                      /\ proc[p].req.showtime_init < r.showtime_end ) )
        => proc[p].resp.kind = "Ok"

\* A showtime was added that starts exactly where a stored showtime of its room
\* ends.
C19_Witness ==
    \E p \in Procs :
        /\ DoneWith(p, "addShowtime", "Ok")
        /\ \E r \in Others(p) : r.showtime_end = proc[p].req.showtime_init

\* The classification as the scheduling rules state it, on a candidate [cs, ce)
\* and an existing [es, ee).
Classification(cs, ce, es, ee) ==
    IF es <= cs /\ cs < ee THEN "startOverlap"
    ELSE IF es < ce /\ ce <= ee THEN "endOverlap"
    ELSE IF cs <= es /\ ce >= ee THEN "fullOverlap"
    ELSE "none"

ClassifiedAgainst(p, r) ==
    Classification(proc[p].req.showtime_init, CandidateEnd(p), r.showtime_init, r.showtime_end)

\* C20: the overlap check reports StartOverlap when the candidate's start is in
\* [existingStart, existingEnd), otherwise EndOverlap when its end is in
\* (existingStart, existingEnd], otherwise FullOverlap when it covers the
\* existing interval, otherwise nothing; createShowtime scans the room's
\* showtimes in stored order and fails with the classification and the id of the
\* first one that conflicts, and succeeds when none does.
C20_FirstConflict ==
    \A p \in Procs :
        (Schedulable(p) /\ proc[p].op = "addShowtime") =>
            LET conflicts == {r \in Others(p) : ClassifiedAgainst(p, r) # "none"}
            IN  IF conflicts = {}
                THEN proc[p].resp.kind = "Ok"
                ELSE \E first \in conflicts :
                        /\ \A o \in conflicts : first.id <= o.id
                        /\ proc[p].resp =
                              RespRef("Conflict", ClassifiedAgainst(p, first), first.id)

\* A candidate that starts 1000 s after the start of the first stored showtime
\* and also covers the second one was refused as StartOverlap naming the first.
C20_Witness ==
    \E p \in Procs :
        /\ Finished(p, "addShowtime")
        /\ Cardinality({r \in Others(p) : ClassifiedAgainst(p, r) # "none"}) >= 2
        /\ \E r \in Others(p) :
              /\ proc[p].req.showtime_init = r.showtime_init + 1000
              /\ proc[p].resp = RespRef("Conflict", "startOverlap", r.id)

\* C21: for a candidate and an existing interval that are both non-empty, the
\* three-way classification reports a conflict (startOverlap, endOverlap or
\* fullOverlap) if and only if candidateStart < existingEnd and
\* candidateEnd > existingStart; createShowtime accordingly answers with one of
\* the three exactly when some showtime of the room intersects the candidate.
C21_IntersectIff ==
    \A p \in Procs :
        ( /\ Schedulable(p) /\ proc[p].op = "addShowtime"
          /\ proc[p].req.showtime_init < CandidateEnd(p)
          /\ \A r \in Others(p) : r.showtime_init < r.showtime_end )
        => LET cs == proc[p].req.showtime_init
               ce == CandidateEnd(p)
           IN  /\ \A r \in Others(p) :
                     (ConflictType(cs, ce, r.showtime_init, r.showtime_end) # "none")
                         <=> (cs < r.showtime_end /\ ce > r.showtime_init)
               /\ ( /\ proc[p].resp.kind = "Conflict"
                    /\ proc[p].resp.msg \in {"startOverlap", "endOverlap", "fullOverlap"} )
                     <=> (\E r \in Others(p) : cs < r.showtime_end /\ ce > r.showtime_init)

\* A candidate that begins before and ends after the stored showtime of its room
\* was refused as fullOverlap.
C21_Witness ==
    \E p \in Procs :
        /\ Finished(p, "addShowtime")
        /\ \E r \in Others(p) :
              /\ proc[p].req.showtime_init < r.showtime_init
              /\ r.showtime_end < CandidateEnd(p)
              /\ proc[p].resp = RespRef("Conflict", "fullOverlap", r.id)

\* The showtime an edit is moving, as stored at the call.
Own(p) == RowsById(proc[p].pre.showtimes, proc[p].req.id)

Meets(p, r) ==
    r.showtime_init < CandidateEnd(p) /\ proc[p].req.showtime_init < r.showtime_end

\* C22: editShowtime never reports a conflict of a showtime with itself: an edit
\* whose new interval intersects only the edited showtime's own current interval
\* succeeds, and an edit whose new interval intersects another showtime of the
\* target room fails with Conflict, naming another showtime, and leaves the
\* showtimes unchanged.
C22_NoSelfConflict ==
    \A p \in Procs :
        (Schedulable(p) /\ proc[p].op = "editShowtime") =>
            LET hit == \E r \in Others(p) : Meets(p, r)
            IN  /\ proc[p].resp.ref # proc[p].req.id
                /\ ((\E r \in Own(p) : Meets(p, r)) /\ ~hit) => proc[p].resp.kind = "Ok"
                /\ hit => /\ proc[p].resp.kind = "Conflict"
                          /\ showtimes = proc[p].pre.showtimes

\* A showtime was moved, within its room, to an interval that intersects the one
\* it had.
C22_Witness ==
    \E p \in Procs :
        /\ DoneWith(p, "editShowtime", "Ok")
        /\ \E r \in Own(p) :
              /\ Meets(p, r)
              /\ r.room_id = proc[p].req.room_id
              /\ r.showtime_init # proc[p].req.showtime_init

\* C23: a successful editShowtime run alone leaves the showtime's availableSeats
\* and all Seat and Reservation records unchanged; of the stored showtimes it
\* changes only the edited one, and of that one only movie, room, start, end and
\* totalSeats (createdAt is not part of the rows).
C23_EditEffect ==
    \A p \in Procs :
        DoneWith(p, "editShowtime", "Ok") =>
            LET pre == proc[p].pre
                id == proc[p].req.id
            IN  /\ seats = pre.seats
                /\ reservations = pre.reservations
                /\ {r \in showtimes : r.id # id} = {r \in pre.showtimes : r.id # id}
                /\ Cardinality(RowsById(showtimes, id)) = 1
                /\ Cardinality(RowsById(pre.showtimes, id)) = 1
                /\ Available(showtimes, id) = Available(pre.showtimes, id)

\* A showtime with a reserved seat, its counter below its total, was moved into
\* the room of another capacity.
C23_Witness ==
    \E p \in Procs :
        /\ DoneWith(p, "editShowtime", "Ok")
        /\ SeatsOf(proc[p].req.id) # {}
        /\ \E r \in Own(p) : /\ r.available_seats < r.total_seats
                             /\ rooms[r.room_id] # rooms[proc[p].req.room_id]

\* The reservation a cancelReservation or reassignSeat names, as stored at the
\* call.
Named(p) == RowsById(proc[p].pre.reservations, proc[p].req.id)

C25_ReassignEffect ==
    \A p \in Procs :
        DoneWith(p, "editReservation", "Ok") =>
            LET pre == proc[p].pre
            IN  /\ showtimes = pre.showtimes
                /\ reservations = pre.reservations
                /\ Cardinality(seats) = Cardinality(pre.seats)
                /\ \A r \in Named(p) :
                      /\ {s \in seats : s.id # r.seat_id} = {s \in pre.seats : s.id # r.seat_id}
                      /\ \A s \in RowsById(pre.seats, r.seat_id) :
                            [s EXCEPT !.seat_number = proc[p].req.seat_number] \in seats

\* A reservation was moved to another seat number while another seat of the same
\* showtime is taken.
C25_Witness ==
    \E p \in Procs :
        /\ DoneWith(p, "editReservation", "Ok")
        /\ \E r \in Named(p) :
              /\ \E s \in proc[p].pre.seats :
                    s.id = r.seat_id /\ s.seat_number # proc[p].req.seat_number
              /\ \E s \in seats : s.id # r.seat_id /\ s.showtime_id = r.showtime_id

\* The second reservation of a reserve, cancel, reserve again of one seat has
\* been answered.
TripEnded(p) == proc[p].pc = "done" /\ proc[p].trip.step = 2

\* A reservation that starts from a free seat number in range of an existing
\* showtime, before the cutoff, asked by a caller the role check lets through.
Reservable(p) ==
    /\ Finished(p, "addReservation")
    /\ proc[p].trip.step = 0
    /\ users[proc[p].user] # "user"
    /\ \E st \in RowsById(proc[p].pre.showtimes, proc[p].req.showtime_id) :
          /\ 2 * now < st.showtime_init + st.showtime_end
          /\ proc[p].req.seat_number >= 1
          /\ proc[p].req.seat_number <= rooms[st.room_id]
          /\ {s \in proc[p].pre.seats : /\ s.showtime_id = st.id
                                         /\ s.seat_number = proc[p].req.seat_number} = {}

C27_StartInFuture ==
    \A p \in Procs :
        ( /\ proc[p].pc = "done"
          /\ proc[p].op \in {"addShowtime", "editShowtime"}
          /\ users[proc[p].user] = "admin" )
        => /\ proc[p].req.showtime_init <= now =>
                 /\ proc[p].resp.kind = "Conflict"
                 /\ Unchanged(p)
           /\ proc[p].resp.kind = "Ok" => proc[p].req.showtime_init > now

\* A createShowtime whose start is exactly the current time was refused.
C27_Witness ==
    \E p \in Procs :
        /\ DoneWith(p, "addShowtime", "Conflict")
        /\ proc[p].req.showtime_init = now

\* C28: a reserveSeat for a showtime that does not exist, for a seat number
\* outside 1..capacity (seat 3 in the room of capacity 2) or for an occupied seat
\* ends in Conflict, and every reserveSeat that ends in Conflict leaves all Seat
\* records, Reservation records and availableSeats counters unchanged.
C28_RefusedReserve ==
    \A p \in Procs :
        (Finished(p, "addReservation") /\ users[proc[p].user] # "user") =>
            LET pre == proc[p].pre
                rows == RowsById(pre.showtimes, proc[p].req.showtime_id)
                n == proc[p].req.seat_number
                cause ==
                    \/ rows = {}
                    \/ \E st \in rows :
                          /\ 2 * now < st.showtime_init + st.showtime_end
                          /\ \/ n < 1
                             \/ n > rooms[st.room_id]
                             \/ \E s \in pre.seats : s.showtime_id = st.id /\ s.seat_number = n
            IN  /\ cause => proc[p].resp.kind = "Conflict"
                /\ proc[p].resp.kind = "Conflict" => Unchanged(p)

\* A seat number above the room's capacity was refused while another seat of the
\* showtime is taken.
C28_Witness ==
    \E p \in Procs :
        /\ DoneWith(p, "addReservation", "Conflict")
        /\ \E st \in RowsById(showtimes, proc[p].req.showtime_id) :
              /\ proc[p].req.seat_number > rooms[st.room_id]
              /\ SeatsOf(st.id) # {}

\* C29: per Seat record the only transitions are: created by a successful
\* reserveSeat, seatNumber changed to a different value by a successful
\* reassignSeat, removed by a successful cancelReservation or by the cascade of
\* its showtime's deletion; reassignSeat to the reservation's current seat number
\* is rejected with Conflict, and no failed operation creates, changes or removes
\* a Seat record.
C29_SeatLifecycle ==
    \A p \in Procs :
        proc[p].pc = "done" =>
            LET pre == proc[p].pre
                ok == proc[p].resp.kind = "Ok"
            IN  /\ ~ok => seats = pre.seats
                /\ (ok /\ proc[p].op = "addReservation") =>
                      \E s \in seats :
                          /\ RowsById(pre.seats, s.id) = {}
                          /\ seats = pre.seats \cup {s}
                /\ (ok /\ proc[p].op = "editReservation") =>
                      \E old \in pre.seats :
                          /\ old.seat_number # proc[p].req.seat_number
                          /\ seats = (pre.seats \ {old}) \cup
                                {[old EXCEPT !.seat_number = proc[p].req.seat_number]}
                /\ (ok /\ proc[p].op = "deleteReservation") =>
                      \E old \in pre.seats : seats = pre.seats \ {old}
                /\ (ok /\ proc[p].op = "deleteShowtime") =>
                      seats = {s \in pre.seats : s.showtime_id # proc[p].req.id}
                /\ (ok /\ proc[p].op \in {"addShowtime", "editShowtime", "editMovie"}) =>
                      seats = pre.seats
                /\ ( /\ proc[p].op = "editReservation"
                     /\ \E r \in Named(p), s \in pre.seats :
                           /\ r.user_id = proc[p].user
                           /\ s.id = r.seat_id
                           /\ s.seat_number = proc[p].req.seat_number )
                      => proc[p].resp.kind = "Conflict"

\* C30: when the store answers every statement, with a result or an error, every
\* invoked operation eventually returns a tagged outcome, also when a statement
\* fails partway through, the counter read and update inside cancelReservation's
\* nested callbacks included.
C30_EventuallyAnswered ==
    \A p \in Procs : (proc[p].pc \notin {"idle", "done"}) ~> (proc[p].pc = "done")

\* C31: when an editShowtime interleaves with one reserveSeat or
\* cancelReservation on the same showtime, the counter change of the reservation
\* or cancellation survives: once both have completed, availableSeats differs
\* from its initial value by exactly -1 or +1 respectively.
C31_CounterSurvivesEdit ==
    \A e \in Procs, p \in Procs :
        ( /\ \A q \in Procs : proc[q].pc \in {"idle", "done"}
          /\ \A q \in Procs \ {e, p} : proc[q].pc = "idle"
          /\ DoneWith(e, "editShowtime", "Ok") )
        => /\ (DoneWith(p, "addReservation", "Ok") /\ proc[p].req.showtime_id = proc[e].req.id) =>
                 Available(showtimes, proc[e].req.id)
                     = Available(ReservedShowtimes, proc[e].req.id) - 1
           /\ (DoneWith(p, "deleteReservation", "Ok") /\ proc[p].loc.showtime_id = proc[e].req.id) =>
                 Available(showtimes, proc[e].req.id)
                     = Available(ReservedShowtimes, proc[e].req.id) + 1

\* C32: two interleaved cancelReservation calls by the owner for the same
\* reservation, nothing else running, result in exactly one success; the
\* Reservation and its Seat record are removed once and availableSeats is
\* incremented exactly once.
C32_CancelOnce ==
    \A p \in Procs, q \in Procs :
        ( /\ p # q
          /\ Finished(p, "deleteReservation") /\ Finished(q, "deleteReservation")
          /\ \A o \in Procs \ {p, q} : proc[o].pc = "idle"
          /\ proc[p].req.id = proc[q].req.id
          /\ \E r \in Named(p) : r.user_id = proc[p].user /\ r.user_id = proc[q].user )
        => \E r \in Named(p) :
              /\ Cardinality({o \in {p, q} : proc[o].resp.kind = "Ok"}) = 1
              /\ reservations = proc[p].pre.reservations \ {r}
              /\ seats = proc[p].pre.seats \ RowsById(proc[p].pre.seats, r.seat_id)
              /\ showtimes = SetAvailableIn(proc[p].pre.showtimes, r.showtime_id,
                                 Available(proc[p].pre.showtimes, r.showtime_id) + 1)

\* Both cancellations had passed the owner check before either deleted: one was
\* answered Ok and the other found no row to delete.
C32_Witness ==
    \E p \in Procs, q \in Procs :
        /\ DoneWith(p, "deleteReservation", "Ok")
        /\ Finished(q, "deleteReservation")
        /\ proc[q].req.id = proc[p].req.id
        /\ proc[q].resp = Resp("BadParam", "noReservation")

\* C33: reserveSeat never succeeds on a showtime whose availableSeats is 0 at
\* the time of the call, after any sequence of createShowtime, editShowtime,
\* reserveSeat, cancelReservation and reassignSeat.
C33_NoSaleWhenSoldOut ==
    \A p \in Procs :
        DoneWith(p, "addReservation", "Ok") =>
            Available(proc[p].pre.showtimes, proc[p].req.showtime_id) > 0

\* C34: every createShowtime or editShowtime that returns Unauthorized, BadParam
\* or Conflict (missing field, past start, unknown movie, unknown room, overlap)
\* leaves every showtime record unchanged: all validation and the overlap scan
\* precede the single INSERT or UPDATE.
C34_RefusedScheduling ==
    \A p \in Procs :
        ( /\ proc[p].pc = "done"
          /\ proc[p].op \in {"addShowtime", "editShowtime"}
          /\ proc[p].resp.kind \in {"Unauthorized", "BadParam", "Conflict"} )
        => showtimes = proc[p].pre.showtimes

\* A createShowtime was refused for overlapping a stored showtime.
C34_Witness ==
    \E p \in Procs :
        /\ DoneWith(p, "addShowtime", "Conflict")
        /\ \E r \in showtimes : r.id = proc[p].resp.ref

\* C35: every stored showtime's total_seats is the capacity of the room it
\* references, both as createShowtime stored it and after an editShowtime
\* that moved it to another room.
C35_TotalIsCapacity ==
    \A r \in showtimes :
        /\ r.room_id \in DOMAIN rooms
        /\ r.total_seats = rooms[r.room_id]

C35_Witness ==
    \E p \in Procs :
        /\ DoneWith(p, "editShowtime", "Ok")
        /\ \E old \in Own(p) : \E new \in RowsById(showtimes, proc[p].req.id) :
              /\ old.room_id # new.room_id
              /\ old.total_seats # new.total_seats

\* C36: every stored reservation references a stored seat row, and that seat
\* row belongs to the showtime the reservation references.
C36_SeatOfSameShowtime ==
    \A r \in reservations :
        /\ RowsById(seats, r.seat_id) # {}
        /\ \A s \in RowsById(seats, r.seat_id) : s.showtime_id = r.showtime_id

\* A reservation stored for one showtime while a seat row of another showtime
\* carries the same seat number.
C36_Witness ==
    \E p \in Procs :
        /\ DoneWith(p, "addReservation", "Ok")
        /\ \E r \in reservations, s \in seats, t \in seats :
              /\ r \in reservations \ proc[p].pre.reservations
              /\ s.id = r.seat_id
              /\ t.seat_number = s.seat_number
              /\ t.showtime_id # r.showtime_id
====
